---- MODULE Spec2Model ----
(***************************************************************************)
(* FOC multi-zone lead bridge: the accept-then-process pipeline of         *)
(* src/foc-bridge/server.js and of its later revision src/unnamed/part_000 *)
(* (same routes; stricter schema, setImmediate dispatch, one try block     *)
(* around the loop body, addToRefundLog with a size cap).                  *)
(*                                                                         *)
(* JavaScript values are tagged records [t, v]: a string is the tuple of   *)
(* its characters, a (non-negative, safe) integer the tuple of its decimal *)
(* digits.  An object is a function from its own keys to values.  Node     *)
(* runs one callback at a time: `running` names the batch whose code holds *)
(* the event loop (0: the loop is idle and may pick any ready callback).   *)
(***************************************************************************)
EXTENDS Integers, Sequences, FiniteSets, TLC

\* ------------------------------------------------------------ JS values

Undefined == [t |-> "undefined", v |-> <<>>]
Null == [t |-> "null", v |-> <<>>]
Str(chars) == [t |-> "string", v |-> chars]
Num(digits) == [t |-> "number", v |-> digits]

\* obj[k] on an object literal's own keys
Get(obj, k) == IF k \in DOMAIN obj THEN obj[k] ELSE Undefined

\* value || fallback for the values the payload uses
Truthy(val) == val.t \notin {"undefined", "null"} /\ val.v # <<>>

DigitChars == <<"0", "1", "2", "3", "4", "5", "6", "7", "8", "9">>
IsDigit(c) == \E i \in 1..Len(DigitChars) : DigitChars[i] = c

UpperChars == <<"A", "B", "C", "D", "E", "F", "G", "H", "I", "J", "K", "L", "M",
                "N", "O", "P", "Q", "R", "S", "T", "U", "V", "W", "X", "Y", "Z">>
LowerChars == <<"a", "b", "c", "d", "e", "f", "g", "h", "i", "j", "k", "l", "m",
                "n", "o", "p", "q", "r", "s", "t", "u", "v", "w", "x", "y", "z">>

\* String.prototype.toLowerCase / toUpperCase, character by character
LowerOf(c) == IF \E i \in 1..Len(UpperChars) : UpperChars[i] = c
              THEN LowerChars[CHOOSE i \in 1..Len(UpperChars) : UpperChars[i] = c]
              ELSE c
UpperOf(c) == IF \E i \in 1..Len(LowerChars) : LowerChars[i] = c
              THEN UpperChars[CHOOSE i \in 1..Len(LowerChars) : LowerChars[i] = c]
              ELSE c
toLowerCase(chars) == [i \in 1..Len(chars) |-> LowerOf(chars[i])]
toUpperCase(chars) == [i \in 1..Len(chars) |-> UpperOf(chars[i])]

\* String.prototype.includes
includes(hay, needle) ==
    \E i \in 1..(Len(hay) - Len(needle) + 1) :
        SubSeq(hay, i, i + Len(needle) - 1) = needle

\* String.prototype.trim (the pool's only whitespace is the space)
RECURSIVE TrimLeft(_)
TrimLeft(chars) == IF chars # <<>> /\ Head(chars) = " " THEN TrimLeft(Tail(chars)) ELSE chars
RECURSIVE TrimRight(_)
TrimRight(chars) == IF chars # <<>> /\ chars[Len(chars)] = " "
                    THEN TrimRight(SubSeq(chars, 1, Len(chars) - 1)) ELSE chars
trim(chars) == TrimRight(TrimLeft(chars))

\* the characters of a JS string as one TLA+ string (template literals)
RECURSIVE Text(_)
Text(chars) == IF chars = <<>> THEN "" ELSE Head(chars) \o Text(Tail(chars))

\* Number.prototype.toString of a non-negative integer given by its digits
NumberToString(digits) == [i \in 1..Len(digits) |-> DigitChars[digits[i] + 1]]

\* value.student_contact.toString()
toString(val) == IF val.t = "number" THEN NumberToString(val.v) ELSE val.v

\* .replace(/\D/g, '')
StripNonDigits(chars) == SelectSeq(chars, IsDigit)

\* .slice(-n)
SliceLast(chars, n) == IF Len(chars) <= n THEN chars
                       ELSE SubSeq(chars, Len(chars) - n + 1, Len(chars))

MobileLen == 10

\* value.student_contact.toString().replace(/\D/g, '').slice(-10)
Mobile(contact) == SliceLast(StripNonDigits(toString(contact)), MobileLen)

\* ---------------------------------------------------- configuration

Variants == {"server.js", "part_000"}

\* a string the program never takes apart, kept whole
Lit(s) == [t |-> "string", v |-> <<s>>]

Central == <<"c", "e", "n", "t", "r", "a", "l">>
South == <<"s", "o", "u", "t", "h">>
Constructor == <<"c", "o", "n", "s", "t", "r", "u", "c", "t", "o", "r">>
North == <<"n", "o", "r", "t", "h">>

CentralUrl ==
    "https://15dcccc1-084b-492a-8444-28992cd90433.neodove.com/integration/custom/e37b53e9-d4a4-45ad-9229-cf808235f1fa/leads"
SouthUrl ==
    "https://15dcccc1-084b-492a-8444-28992cd90433.neodove.com/integration/custom/31814184-5242-467a-817f-c1770d451110/leads"

ZONE_MAP == (Central :> [name |-> "Central Zone", url |-> Lit(CentralUrl)])
            @@ (South :> [name |-> "South Zone", url |-> Lit(SouthUrl)])

\* Members every object literal inherits from Object.prototype: ZONE_MAP[zone]
\* finds them too.  ZONE_MAP['constructor'] is the function Object: truthy,
\* its name is "Object", it has no url.
ObjectPrototypeKeys == {Constructor}

\* ZONE_MAP[zone]: own keys first, then the prototype chain
ZoneLookup(zone) ==
    IF zone \in DOMAIN ZONE_MAP THEN ZONE_MAP[zone]
    ELSE IF zone \in ObjectPrototypeKeys THEN [name |-> "Object", url |-> Undefined]
    ELSE [name |-> "undefined", url |-> Undefined]
\* the truthiness of ZONE_MAP[zone], as `!ZONE_MAP[zone]` tests it
ZoneFound(zone) == zone \in DOMAIN ZONE_MAP \/ zone \in ObjectPrototypeKeys

\* ------------------------------------------------------- leadSchema (Joi)

NoError == ""

SchemaKeys == {"student_name", "student_email", "student_contact", "student_city",
               "interested_city", "interested_course", "medium"}

\* Joi's email rule, to the precision the pool needs: local@domain.tld
IsEmail(chars) ==
    \E i \in 2..(Len(chars) - 1) :
        /\ chars[i] = "@"
        /\ \A j \in 1..Len(chars) : chars[j] = "@" => j = i
        /\ \E k \in (i + 2)..(Len(chars) - 1) : chars[k] = "."
        /\ \A j \in 1..Len(chars) : chars[j] # " "

\* student_name: Joi.string().min(2).required(); part_000 adds .trim()
NameValue(lead, variant) ==
    LET x == Get(lead, "student_name") IN
    IF x.t = "string" /\ variant = "part_000" THEN Str(trim(x.v)) ELSE x
NameError(lead, variant) ==
    LET x == NameValue(lead, variant) IN
    IF x.t = "undefined" THEN "\"student_name\" is required"
    ELSE IF x.t # "string" THEN "\"student_name\" must be a string"
    ELSE IF x.v = <<>> THEN "\"student_name\" is not allowed to be empty"
    ELSE IF Len(x.v) < 2 THEN "\"student_name\" length must be at least 2 characters long"
    ELSE NoError

\* student_email: Joi.string().email().allow('', null); part_000 adds .lowercase()
EmailValue(lead, variant) ==
    LET x == Get(lead, "student_email") IN
    IF x.t = "string" /\ variant = "part_000" THEN Str(toLowerCase(x.v)) ELSE x
EmailError(lead, variant) ==
    LET x == Get(lead, "student_email") IN
    IF x.t \in {"undefined", "null"} THEN NoError
    ELSE IF x.t # "string" THEN "\"student_email\" must be a string"
    ELSE IF x.v = <<>> THEN NoError
    ELSE IF ~IsEmail(x.v) THEN "\"student_email\" must be a valid email"
    ELSE NoError

ContactMinLen == 10

ContactErrorPart000(x) ==
    IF x.t = "undefined" THEN "\"student_contact\" is required"
    ELSE IF x.t # "string" THEN "\"student_contact\" must be a string"
    ELSE IF x.v = <<>> THEN "\"student_contact\" is not allowed to be empty"
    ELSE IF \E i \in 1..Len(x.v) : ~IsDigit(x.v[i])
         THEN "\"student_contact\" with value \"" \o Text(x.v)
              \o "\" fails to match the required pattern: /^[0-9]+$/"
    ELSE IF Len(x.v) < ContactMinLen
         THEN "\"student_contact\" length must be at least 10 characters long"
    ELSE NoError

ContactErrorServer(x) ==
    IF x.t = "undefined" THEN "\"student_contact\" is required"
    ELSE IF x.t = "number" THEN NoError
    ELSE IF x.t = "string" /\ x.v # <<>> THEN NoError
    ELSE IF x.t = "string" THEN "\"student_contact\" does not match any of the allowed types"
    ELSE "\"student_contact\" must be one of [string, number]"

\* student_contact: server.js Joi.alternatives().try(Joi.string(), Joi.number()).required();
\* part_000 Joi.string().pattern(/^[0-9]+$/).min(10).required()
ContactError(lead, variant) ==
    IF variant = "part_000" THEN ContactErrorPart000(Get(lead, "student_contact"))
    ELSE ContactErrorServer(Get(lead, "student_contact"))

\* student_city, interested_city, interested_course: Joi.string().allow('', null)
OptionalError(lead, k) ==
    LET x == Get(lead, k) IN
    IF x.t \in {"undefined", "null", "string"} THEN NoError
    ELSE "\"" \o k \o "\" must be a string"

\* medium: Joi.string().default('COLLEGEDUNIA')
MediumDefault == <<"C", "O", "L", "L", "E", "G", "E", "D", "U", "N", "I", "A">>
MediumValue(lead) ==
    LET x == Get(lead, "medium") IN IF x.t = "undefined" THEN Str(MediumDefault) ELSE x
MediumError(lead) ==
    LET x == Get(lead, "medium") IN
    IF x.t = "undefined" THEN NoError
    ELSE IF x.t # "string" THEN "\"medium\" must be a string"
    ELSE IF x.v = <<>> THEN "\"medium\" is not allowed to be empty"
    ELSE NoError

\* keys the schema does not name: Joi objects reject them
UnknownError(lead) ==
    LET extra == DOMAIN lead \ SchemaKeys IN
    IF extra = {} THEN NoError
    ELSE "\"" \o (CHOOSE k \in extra : TRUE) \o "\" is not allowed"

FirstError(errs) ==
    IF \E i \in 1..Len(errs) : errs[i] # NoError
    THEN errs[CHOOSE i \in 1..Len(errs) :
                  errs[i] # NoError /\ \A j \in 1..(i - 1) : errs[j] = NoError]
    ELSE NoError

\* leadSchema.validate(lead).error: the first failing key in schema order
\* (abortEarly), unknown keys last; NoError when the lead is valid
ValidationError(lead, variant) ==
    FirstError(<<NameError(lead, variant), EmailError(lead, variant),
                 ContactError(lead, variant), OptionalError(lead, "student_city"),
                 OptionalError(lead, "interested_city"),
                 OptionalError(lead, "interested_course"),
                 MediumError(lead), UnknownError(lead)>>)

\* leadSchema.validate(lead).value: the lead with Joi's conversions applied
ValidatedValue(lead, variant) ==
    [student_name |-> NameValue(lead, variant),
     student_email |-> EmailValue(lead, variant),
     student_contact |-> Get(lead, "student_contact"),
     student_city |-> Get(lead, "student_city"),
     interested_city |-> Get(lead, "interested_city"),
     interested_course |-> Get(lead, "interested_course"),
     medium |-> MediumValue(lead)]

NoEmail == <<"n", "o", "-", "e", "m", "a", "i", "l", "@", "f", "o", "c", ".", "c", "o", "m">>

\* the body of axios.post(config.url, {...})
Payload(value, mobile, zoneKey) ==
    [name |-> value.student_name,
     mobile |-> mobile,
     email |-> IF Truthy(value.student_email) THEN value.student_email ELSE Str(NoEmail),
     interested_course |-> value.interested_course,
     student_city |-> value.student_city,
     interested_city |-> value.interested_city,
     source |-> Str(toUpperCase(zoneKey)),
     medium |-> value.medium]

\* ------------------------------------------------------------ inputs

MaxBatches == 2
MaxRecords == 2
MaxReq == 3

Batches == 1..MaxBatches

AB == <<"A", " ", "B">>
CD == <<"C", " ", "D">>
Trunk == <<"0", "9", "8", "7", "6", "5", "4", "3", "2", "1", "0">>
Prefixed == <<"+", "9", "1", " ", "9", "8", "7", "6", "5", "-", "4", "3", "2", "1", "0">>
Short == <<1, 2, 3, 4, 5>>
Other == <<"9", "1", "2", "3", "4", "5", "6", "7", "8", "9">>
East == <<"e", "a", "s", "t">>

\* raw leads a partner may post
LeadTrunk == [student_name |-> Str(AB), student_contact |-> Str(Trunk)]
LeadPrefixed == [student_name |-> Str(AB), student_contact |-> Str(Prefixed)]
LeadShort == [student_name |-> Str(CD), student_contact |-> Num(Short)]
LeadNoName == [student_contact |-> Str(Trunk)]
LeadOther == [student_name |-> Str(CD), student_contact |-> Str(Other)]
\* a lead that carries a field named zone of its own
LeadZoned == [student_name |-> Str(AB), student_contact |-> Str(Trunk), zone |-> Str(East)]

LeadPool == {LeadTrunk, LeadPrefixed, LeadShort, LeadNoName, LeadOther, LeadZoned}

\* the leads of submissions that run side by side: batches overlap only when
\* all their leads are drawn from here (a bound on the inputs explored)
ConcurrentPool == {LeadTrunk, LeadNoName}

RECURSIVE SeqsUpTo(_, _)
SeqsUpTo(S, n) == IF n = 0 THEN {<<>>}
                  ELSE LET shorter == SeqsUpTo(S, n - 1) IN
                       shorter \cup {Append(q, x) : q \in shorter, x \in S}

\* req.body: an array of leads, or one lead object
ArrayBodies == {[isArray |-> TRUE, value |-> q] : q \in SeqsUpTo(LeadPool, MaxRecords)}
ObjectBodies == {[isArray |-> FALSE, value |-> x] : x \in LeadPool}

GoodKey == <<"s", "3", "c", "r", "e", "t">>
BadKey == <<"g", "u", "e", "s", "s">>

\* process.env.COLLEGEDUNIA_SECRET_KEY, set in the deployment
COLLEGEDUNIA_KEY == Str(GoodKey)

\* req.headers['x-api-key']: the secret, another string, or no header
IncomingKeys == {Str(GoodKey), Str(BadKey), Undefined}
ZoneParams == {Central, South, Constructor, North}

\* ------------------------------------------------- the CRM's answers

Duplicate == <<"d", "u", "p", "l", "i", "c", "a", "t", "e">>
MsgTimeout5000 == <<"t", "i", "m", "e", "o", "u", "t", " ", "o", "f", " ", "5", "0", "0", "0",
                    "m", "s", " ", "e", "x", "c", "e", "e", "d", "e", "d">>
MsgTimeout8000 == <<"t", "i", "m", "e", "o", "u", "t", " ", "o", "f", " ", "8", "0", "0", "0",
                    "m", "s", " ", "e", "x", "c", "e", "e", "d", "e", "d">>
MsgInvalidUrl == <<"I", "n", "v", "a", "l", "i", "d", " ", "U", "R", "L">>
MsgStatusPrefix == <<"R", "e", "q", "u", "e", "s", "t", " ", "f", "a", "i", "l", "e", "d", " ",
                     "w", "i", "t", "h", " ", "s", "t", "a", "t", "u", "s", " ", "c", "o", "d",
                     "e", " ">>
BodyOk == <<"o", "k">>
BodyDupLead == <<"D", "u", "p", "l", "i", "c", "a", "t", "e", " ", "l", "e", "a", "d">>
BodyDupEntry == <<"D", "U", "P", "L", "I", "C", "A", "T", "E", " ", "e", "n", "t", "r", "y">>
BodyFail == <<"f", "a", "i", "l">>

RECURSIVE IntChars(_)
IntChars(n) == IF n < 10 THEN <<DigitChars[n + 1]>>
               ELSE IntChars(n \div 10) \o <<DigitChars[(n % 10) + 1]>>

\* What axios.post settles with: an HTTP response (status, body text), or no
\* response at all (timeout, bad URL).
Response(status, data) == [hasResponse |-> TRUE, status |-> status, data |-> data,
                           message |-> MsgStatusPrefix \o IntChars(status)]
NoResponse(message) == [hasResponse |-> FALSE, status |-> 0, data |-> <<>>,
                        message |-> message]

\* the timeout option of axios.post: 5000 in server.js, 8000 in part_000
TimeoutMessage(variant) == IF variant = "part_000" THEN MsgTimeout8000 ELSE MsgTimeout5000

CrmAnswers(variant) ==
    {Response(200, BodyOk), Response(200, BodyDupLead), Response(409, <<>>),
     Response(500, BodyDupEntry), Response(500, BodyFail),
     NoResponse(TimeoutMessage(variant))}

\* mutant: no timeout option and a CRM that never answers; the call never settles
SettlementsNever(url, variant) == {}

\* axios.post(undefined, ...) rejects before anything is sent
Settlements(url, variant) ==
    IF url.t = "undefined" THEN {NoResponse(MsgInvalidUrl)} ELSE CrmAnswers(variant)

\* mutant: axios rejects whatever the status (validateStatus: () => false)
ResolvesNever(r) == FALSE

\* axios resolves on a 2xx status and rejects otherwise (validateStatus default)
Resolves(r) == r.hasResponse /\ r.status >= 200 /\ r.status < 300

\* JSON.stringify of a string body
JSONstringify(data) == <<"\"">> \o data \o <<"\"">>

\* ------------------------------------------------------------- state

VARIABLES
    variant,      \* which revision of the server runs
    refundLog,    \* let refundLog = []
    running,      \* the batch whose code is executing; 0: event loop idle
    nBatches,     \* submissions accepted so far
    leads,        \* per batch: processZoneBatch's leads
    zoneKey,      \* per batch: processZoneBatch's zoneKey
    pos,          \* per batch: index of the for-of loop's current lead
    seenInBatch,  \* per batch: the Set seenInBatch
    pc,           \* per batch: where its code stands
    acked,        \* per batch: the response sent to its submission
    calls,        \* per batch: the axios.post calls issued, in order
    outcomes,     \* per batch: how each record ended, in order (history)
    appendedBy,   \* per batch: entries it pushed to refundLog (history)
    sleeps,       \* per batch: throttle sleeps that have run (history)
    lastReq,      \* the HTTP request the latest step served (NoRequest: none)
    lastResp,     \* the response that step sent (NotSent: none)
    settled,      \* the axios.post settlement the latest step handled (NotSettled: none)
    nReq,         \* HTTP requests served so far
    sinceClear    \* since the last DELETE: "clean", "appended"; "void": none, or a
                  \* submission was accepted after it (history)

batchVars == <<nBatches, leads, zoneKey, pos, seenInBatch, pc, acked, calls, outcomes,
               appendedBy, sleeps>>
vars == <<variant, refundLog, running, nBatches, leads, zoneKey, pos, seenInBatch, pc,
          acked, calls, outcomes, appendedBy, sleeps, lastReq, lastResp, settled, nReq,
          sinceClear>>

NotSent == [status |-> 0]
\* req.body as the request records it: the items of an array, or the one
\* object; a request without a body has neither
NoBody == [isArray |-> FALSE]
Posted(body) == IF body.isArray THEN [isArray |-> TRUE, items |-> body.value]
                ELSE [isArray |-> FALSE, object |-> body.value]
NoRequest == [op |-> "none", key |-> Undefined, zone |-> <<>>, body |-> NoBody]
NotSettled == [batch |-> 0, answer |-> NoResponse(<<>>)]

\* a step of a background batch serves no HTTP request
NoHttp == lastReq' = NoRequest /\ lastResp' = NotSent /\ nReq' = nReq

InitWith(log, served) ==
    /\ variant \in Variants
    /\ refundLog = log
    /\ running = 0
    /\ nBatches = 0
    /\ leads = [b \in Batches |-> <<>>]
    /\ zoneKey = [b \in Batches |-> <<>>]
    /\ pos = [b \in Batches |-> 1]
    /\ seenInBatch = [b \in Batches |-> {}]
    /\ pc = [b \in Batches |-> "none"]
    /\ acked = [b \in Batches |-> NotSent]
    /\ calls = [b \in Batches |-> <<>>]
    /\ outcomes = [b \in Batches |-> <<>>]
    /\ appendedBy = [b \in Batches |-> 0]
    /\ sleeps = [b \in Batches |-> 0]
    /\ lastReq = NoRequest
    /\ lastResp = NotSent
    /\ settled = NotSettled
    /\ nReq = served
    /\ sinceClear = "void"

Init == InitWith(<<>>, 0)

\* ------------------------------------------------------- the ledger

LedgerCap == 1000

\* new Date().toISOString(): the wall clock is not modelled
Timestamp == Lit("<ISO time>")

\* mutant: { zone: zoneKey, reason, ...lead }, a record's own zone and reason
\* fields win
SpreadEntryLeadWins(lead, zone, reason) ==
    [k \in DOMAIN lead \cup {"zone", "reason"} |->
        IF k \in DOMAIN lead THEN lead[k]
        ELSE IF k = "zone" THEN Str(zone) ELSE Lit(reason)]

\* server.js: { ...lead, zone: zoneKey, reason }
SpreadEntry(lead, zone, reason) ==
    [k \in DOMAIN lead \cup {"zone", "reason"} |->
        IF k = "zone" THEN Str(zone) ELSE IF k = "reason" THEN Lit(reason) ELSE lead[k]]

\* part_000: { timestamp, zone, reason, data: lead }
DataEntry(lead, zone, reason) ==
    [timestamp |-> Timestamp, zone |-> Str(zone), reason |-> Lit(reason), data |-> lead]

\* part_000's addToRefundLog: push, then drop the oldest entry beyond the cap
addToRefundLog(log, lead, zone, reason) ==
    LET pushed == Append(log, DataEntry(lead, zone, reason)) IN
    IF Len(pushed) > LedgerCap THEN Tail(pushed) ELSE pushed

\* server.js's refundLog.push({...})
pushSpread(log, lead, zone, reason) == Append(log, SpreadEntry(lead, zone, reason))

\* mutant: refundLog.unshift(...), the newest entry first
LoggedFirst(log, lead, zone, reason) ==
    <<IF variant = "part_000" THEN DataEntry(lead, zone, reason)
      ELSE SpreadEntry(lead, zone, reason)>> \o log

\* mutant: an entry equal to one already in the ledger is not pushed again
LoggedOnce(log, lead, zone, reason) ==
    LET e == IF variant = "part_000" THEN DataEntry(lead, zone, reason)
             ELSE SpreadEntry(lead, zone, reason) IN
    IF \E n \in 1..Len(log) : log[n] = e THEN log ELSE Append(log, e)

\* the ledger after one failure is logged
Logged(log, lead, zone, reason) ==
    IF variant = "part_000" THEN addToRefundLog(log, lead, zone, reason)
    ELSE pushSpread(log, lead, zone, reason)

DuplicateInBatchReason == IF variant = "part_000" THEN "Duplicate in current batch"
                          ELSE "Duplicate in file"
ValidationReason(lead) == "Validation: " \o ValidationError(lead, variant)

\* the catch block's isDupe
IsDupeServer(r) ==
    r.hasResponse /\ (r.status = 409
                      \/ includes(toLowerCase(JSONstringify(r.data)), Duplicate))
ErrorMsgPart000(r) == IF r.hasResponse /\ r.data # <<>> THEN JSONstringify(r.data)
                      ELSE r.message
IsDupePart000(r) ==
    includes(toLowerCase(ErrorMsgPart000(r)), Duplicate) \/ (r.hasResponse /\ r.status = 409)
IsDupe(r) == IF variant = "part_000" THEN IsDupePart000(r) ELSE IsDupeServer(r)

\* the catch block's reason
CatchReason(r) ==
    IF IsDupe(r) THEN "Duplicate in CRM"
    ELSE IF variant = "part_000" THEN "External Error: " \o Text(ErrorMsgPart000(r))
    ELSE "Error: " \o Text(r.message)

\* ------------------------------------------------------ HTTP handlers

ServedWith(op, key, zone, body, resp) ==
    /\ nReq < MaxReq
    /\ nReq' = nReq + 1
    /\ lastReq' = [op |-> op, key |-> key, zone |-> zone, body |-> body]
    /\ lastResp' = resp
    /\ settled' = NotSettled

Served(op, key, zone, resp) == ServedWith(op, key, zone, NoBody, resp)

\* app.get('/status')
GetStatus ==
    /\ running = 0
    /\ Served("GET /status", Undefined, <<>>, [status |-> 200, body |-> "Online"])
    /\ UNCHANGED <<variant, refundLog, running, batchVars, sinceClear>>

RECURSIVE SumOf(_, _)
SumOf(f, n) == IF n = 0 THEN 0 ELSE f[n] + SumOf(f, n - 1)

\* mutant: total counts the entries ever logged, not those in the list
RefundsBodyEverLogged(log) ==
    [status |-> 200, total |-> SumOf(appendedBy, MaxBatches), entries |-> log]

\* { total: refundLog.length, entries: refundLog }
RefundsBody(log) == [status |-> 200, total |-> Len(log), entries |-> log]

\* app.get('/api/leads/refunds')
GetRefunds ==
    /\ running = 0
    /\ Served("GET /api/leads/refunds", Undefined, <<>>, RefundsBody(refundLog))
    /\ UNCHANGED <<variant, refundLog, running, batchVars, sinceClear>>

\* mutant: the DELETE handler answers but keeps the entries
ClearedLogKept(log) == log

\* mutant: the DELETE handler drops the oldest entry only (refundLog.shift())
ClearedLogShift(log) == IF log = <<>> THEN <<>> ELSE Tail(log)

\* refundLog = []
ClearedLog(log) == <<>>

\* app.delete('/api/leads/refunds')
DeleteRefunds ==
    /\ running = 0
    /\ refundLog' = ClearedLog(refundLog)
    /\ Served("DELETE /api/leads/refunds", Undefined, <<>>,
              [status |-> 200, body |-> "Refund report cleared."])
    /\ sinceClear' = "clean"
    /\ UNCHANGED <<variant, running, batchVars>>

\* mutant: only an array body is read, a single object yields no lead
RawLeadsArrayOnly(body) == IF body.isArray THEN body.value ELSE <<>>

\* Array.isArray(req.body) ? req.body : [req.body]
RawLeads(body) == IF body.isArray THEN body.value ELSE <<body.value>>

\* mutant: the handler answers only after the batch, as the one-lead revisions did
AcceptedNotSent(zone, rawLeads) == [status |-> 0]

\* the 202 body: status "accepted", the zone's name, the record count
Accepted(zone, rawLeads) ==
    [status |-> 202, body |-> "accepted", zone |-> ZoneLookup(zone).name,
     count |-> Len(rawLeads)]

RECURSIVE SumLen(_, _)
SumLen(f, n) == IF n = 0 THEN 0 ELSE Len(f[n]) + SumLen(f, n - 1)
\* records accepted so far, over all batches
TotalRecords == SumLen(leads, MaxBatches)

InPool(q, pool) == \A i \in 1..Len(q) : q[i] \in pool
\* the input bounds: MaxBatches submissions of MaxRecords records in all; a
\* second submission only among ConcurrentPool leads
WithinBounds(rawLeads) ==
    /\ nBatches < MaxBatches
    /\ TotalRecords + Len(rawLeads) <= MaxRecords
    /\ nBatches > 0 => /\ InPool(rawLeads, ConcurrentPool)
                       /\ \A b \in 1..nBatches : InPool(leads[b], ConcurrentPool)

\* mutant: the zone is looked up before the key is compared
VerdictZoneFirst(key, zone) ==
    IF ~ZoneFound(zone) THEN 404
    ELSE IF key # COLLEGEDUNIA_KEY THEN 401
    ELSE 202

\* the two early returns of the handler, in order: the status it answers with
Verdict(key, zone) ==
    IF key # COLLEGEDUNIA_KEY THEN 401
    ELSE IF ~ZoneFound(zone) THEN 404
    ELSE 202

\* app.post('/api/leads/:zone'), up to and including the response
PostLeads(key, zone, body) ==
    /\ running = 0
    /\ IF Verdict(key, zone) # 202
       THEN /\ Served("POST /api/leads/:zone", key, zone, [status |-> Verdict(key, zone)])
            /\ UNCHANGED <<running, batchVars, sinceClear>>
       ELSE /\ WithinBounds(RawLeads(body))
            /\ LET b == nBatches + 1
                   rawLeads == RawLeads(body) IN
               /\ ServedWith("POST /api/leads/:zone", key, zone, Posted(body),
                             Accepted(zone, rawLeads))
               /\ nBatches' = b
               /\ leads' = [leads EXCEPT ![b] = rawLeads]
               /\ zoneKey' = [zoneKey EXCEPT ![b] = zone]
               /\ acked' = [acked EXCEPT ![b] = Accepted(zone, rawLeads)]
               /\ pc' = [pc EXCEPT ![b] = "accepted"]
               /\ running' = b
               /\ sinceClear' = "void"
               /\ UNCHANGED <<pos, seenInBatch, calls, outcomes, appendedBy, sleeps>>
    /\ UNCHANGED <<variant, refundLog>>

\* the handler's last statement: server.js calls processZoneBatch at once,
\* part_000 defers it with setImmediate
Dispatch(b) ==
    /\ running = b /\ pc[b] = "accepted"
    /\ IF variant = "part_000"
       THEN pc' = [pc EXCEPT ![b] = "scheduled"] /\ running' = 0
       ELSE pc' = [pc EXCEPT ![b] = "loop"] /\ running' = b
    /\ NoHttp /\ settled' = NotSettled
    /\ UNCHANGED <<variant, refundLog, nBatches, leads, zoneKey, pos, seenInBatch, acked,
                   calls, outcomes, appendedBy, sinceClear, sleeps>>

\* part_000: the setImmediate callback runs
StartBatch(b) ==
    /\ running = 0 /\ pc[b] = "scheduled"
    /\ pc' = [pc EXCEPT ![b] = "loop"]
    /\ running' = b
    /\ NoHttp /\ settled' = NotSettled
    /\ UNCHANGED <<variant, refundLog, nBatches, leads, zoneKey, pos, seenInBatch, acked,
                   calls, outcomes, appendedBy, sinceClear, sleeps>>

\* ------------------------------------------------- processZoneBatch

CurrentLead(b) == leads[b][pos[b]]

Outcome(b, kind) == [idx |-> pos[b], kind |-> kind]

\* mutant: a record that ends (continue, catch, sleep) ends the loop, a break
NextPosBreak(b) == Len(leads[b]) + 1

\* for (const lead of leads): the iterator moves to the next lead
NextPos(b) == pos[b] + 1

\* one failure of batch b's current record goes to the ledger
LogFailure(b, kind, reason) ==
    /\ refundLog' = Logged(refundLog, CurrentLead(b), zoneKey[b], reason)
    /\ appendedBy' = [appendedBy EXCEPT ![b] = @ + 1]
    /\ outcomes' = [outcomes EXCEPT ![b] = Append(@, Outcome(b, kind))]
    /\ sinceClear' = IF sinceClear = "clean" THEN "appended" ELSE sinceClear

\* the for-of loop has no lead left: the async function returns
LoopEnd(b) ==
    /\ running = b /\ pc[b] = "loop"
    /\ pos[b] > Len(leads[b])
    /\ pc' = [pc EXCEPT ![b] = "done"]
    /\ running' = 0
    /\ NoHttp /\ settled' = NotSettled
    /\ UNCHANGED <<variant, refundLog, nBatches, leads, zoneKey, pos, seenInBatch, acked,
                   calls, outcomes, appendedBy, sinceClear, sleeps>>

\* leadSchema.validate(lead) reports an error: log it, continue
RecordInvalid(b) ==
    /\ running = b /\ pc[b] = "loop"
    /\ pos[b] <= Len(leads[b])
    /\ ValidationError(CurrentLead(b), variant) # NoError
    /\ LogFailure(b, "ValidationFailure", ValidationReason(CurrentLead(b)))
    /\ pos' = [pos EXCEPT ![b] = NextPos(b)]
    /\ NoHttp /\ settled' = NotSettled
    /\ UNCHANGED <<variant, running, nBatches, leads, zoneKey, seenInBatch, pc, acked,
                   calls, sleeps>>

\* mutant: the key is the contact's digits, not cut to the last ten
CurrentMobileUnsliced(b) ==
    StripNonDigits(toString(ValidatedValue(CurrentLead(b), variant).student_contact))

\* the mobile of the current (valid) lead
CurrentMobile(b) == Mobile(ValidatedValue(CurrentLead(b), variant).student_contact)

\* mutant: the contact of every record met so far counts as seen, the records
\* that failed validation included
seenHasUnvalidated(b, mobile) ==
    \/ mobile \in seenInBatch[b]
    \/ \E i \in 1..(pos[b] - 1) :
           /\ "student_contact" \in DOMAIN leads[b][i]
           /\ Mobile(leads[b][i].student_contact) = mobile

\* mutant: seenInBatch is one Set at module level, shared by all batches
seenHasShared(b, mobile) == \E c \in Batches : mobile \in seenInBatch[c]

\* mutant: a key counts as seen only once its call was delivered
seenHasDelivered(b, mobile) ==
    \E k \in 1..Len(calls[b]) :
        /\ calls[b][k].data.mobile = mobile
        /\ \E n \in 1..Len(outcomes[b]) : /\ outcomes[b][n].idx = calls[b][k].idx
                                           /\ outcomes[b][n].kind = "Delivered"

\* seenInBatch.has(mobile)
seenHas(b, mobile) == mobile \in seenInBatch[b]

\* seenInBatch.has(mobile): log the duplicate, continue
RecordDuplicate(b) ==
    /\ running = b /\ pc[b] = "loop"
    /\ pos[b] <= Len(leads[b])
    /\ ValidationError(CurrentLead(b), variant) = NoError
    /\ seenHas(b, CurrentMobile(b))
    /\ LogFailure(b, "BatchDuplicate", DuplicateInBatchReason)
    /\ pos' = [pos EXCEPT ![b] = NextPos(b)]
    /\ NoHttp /\ settled' = NotSettled
    /\ UNCHANGED <<variant, running, nBatches, leads, zoneKey, seenInBatch, pc, acked,
                   calls, sleeps>>

\* mutant: the key is never marked seen
SeenAddForgotten(seen, mobile) == seen

\* seenInBatch.add(mobile)
SeenAdd(seen, mobile) == seen \cup {mobile}

\* mutant: axios.post is not awaited, the function goes on to the sleep
NotAwaited(b) == [pc EXCEPT ![b] = "sleep"]

\* await axios.post(...): the function is suspended until the call settles
Awaited(b) == [pc EXCEPT ![b] = "post"]

\* seenInBatch.add(mobile); await axios.post(config.url, {...}): the function
\* yields until the call settles
RecordForward(b) ==
    /\ running = b /\ pc[b] = "loop"
    /\ pos[b] <= Len(leads[b])
    /\ ValidationError(CurrentLead(b), variant) = NoError
    /\ ~seenHas(b, CurrentMobile(b))
    /\ seenInBatch' = [seenInBatch EXCEPT ![b] = SeenAdd(@, CurrentMobile(b))]
    /\ calls' = [calls EXCEPT ![b] = Append(@,
                    [idx |-> pos[b], url |-> ZoneLookup(zoneKey[b]).url,
                     data |-> Payload(ValidatedValue(CurrentLead(b), variant),
                                      CurrentMobile(b), zoneKey[b])])]
    /\ pc' = Awaited(b)
    /\ running' = 0
    /\ NoHttp /\ settled' = NotSettled
    /\ UNCHANGED <<variant, refundLog, nBatches, leads, zoneKey, pos, acked, outcomes,
                   appendedBy, sinceClear, sleeps>>

PendingUrl(b) == calls[b][Len(calls[b])].url

\* the call resolves (2xx): the function goes on to the throttle sleep
PostResolves(b, r) ==
    /\ running = 0 /\ pc[b] = "post"
    /\ r \in Settlements(PendingUrl(b), variant)
    /\ Resolves(r)
    /\ outcomes' = [outcomes EXCEPT ![b] = Append(@, Outcome(b, "Delivered"))]
    /\ pc' = [pc EXCEPT ![b] = "sleep"]
    /\ NoHttp /\ settled' = [batch |-> b, answer |-> r]
    /\ UNCHANGED <<variant, refundLog, running, nBatches, leads, zoneKey, pos, seenInBatch,
                   acked, calls, appendedBy, sinceClear, sleeps>>

\* the call rejects: the catch block logs the record, the loop goes on
PostRejects(b, r) ==
    /\ running = 0 /\ pc[b] = "post"
    /\ r \in Settlements(PendingUrl(b), variant)
    /\ ~Resolves(r)
    /\ LogFailure(b, IF IsDupe(r) THEN "RemoteDuplicate" ELSE "TransportFailure",
                  CatchReason(r))
    /\ pos' = [pos EXCEPT ![b] = NextPos(b)]
    /\ pc' = [pc EXCEPT ![b] = "loop"]
    /\ running' = b
    /\ NoHttp /\ settled' = [batch |-> b, answer |-> r]
    /\ UNCHANGED <<variant, nBatches, leads, zoneKey, seenInBatch, acked, calls, sleeps>>

\* the throttle timer (150 ms / 200 ms) fires: next iteration
TimerFires(b) ==
    /\ running = 0 /\ pc[b] = "sleep"
    /\ pos' = [pos EXCEPT ![b] = NextPos(b)]
    /\ pc' = [pc EXCEPT ![b] = "loop"]
    /\ running' = b
    /\ sleeps' = [sleeps EXCEPT ![b] = @ + 1]
    /\ NoHttp /\ settled' = NotSettled
    /\ UNCHANGED <<variant, refundLog, nBatches, leads, zoneKey, seenInBatch, acked, calls,
                   outcomes, appendedBy, sinceClear>>

\* ------------------------------------------------------ specification

\* The bodies worth posting: a rejected submission never reads its body, so
\* one body stands for all; an accepted one fits the bounds.
Rejected(key, zone) == Verdict(key, zone) # 202
ArrayBodiesFor(key, zone) ==
    IF Rejected(key, zone) THEN {[isArray |-> TRUE, value |-> <<>>]}
    ELSE {body \in ArrayBodies : WithinBounds(RawLeads(body))}
ObjectBodiesFor(key, zone) ==
    IF Rejected(key, zone) THEN {}
    ELSE {body \in ObjectBodies : WithinBounds(RawLeads(body))}

AllAnswers == CrmAnswers("server.js") \cup CrmAnswers("part_000")
              \cup {NoResponse(MsgInvalidUrl)}

Next ==
    \/ GetStatus
    \/ GetRefunds
    \/ DeleteRefunds
    \/ \E key \in IncomingKeys, zone \in ZoneParams :
           \E body \in ArrayBodiesFor(key, zone) : PostLeads(key, zone, body)
    \/ \E key \in IncomingKeys, zone \in ZoneParams :
           \E body \in ObjectBodiesFor(key, zone) : PostLeads(key, zone, body)
    \/ \E b \in Batches : Dispatch(b)
    \/ \E b \in Batches : StartBatch(b)
    \/ \E b \in Batches : LoopEnd(b)
    \/ \E b \in Batches : RecordInvalid(b)
    \/ \E b \in Batches : RecordDuplicate(b)
    \/ \E b \in Batches : RecordForward(b)
    \/ \E b \in Batches, r \in AllAnswers : PostResolves(b, r)
    \/ \E b \in Batches, r \in AllAnswers : PostRejects(b, r)
    \/ \E b \in Batches : TimerFires(b)

Spec == Init /\ [][Next]_vars

\* ------------------------------------------------------------- claims

\* what a ledger entry says
EntryReason(e) == e.reason.v[1]
EntryZone(e) == e.zone.v

Valid(lead) == ValidationError(lead, variant) = NoError
\* the canonical contact key of a valid lead
KeyOf(lead) == Mobile(ValidatedValue(lead, variant).student_contact)
CallIdx(b) == {calls[b][k].idx : k \in 1..Len(calls[b])}
\* record i of batch b has been through the loop body, or its call is out
Reached(b, i) == pos[b] > i \/ (pos[b] = i /\ pc[b] \in {"post", "sleep"})
\* the ledger grew by exactly one entry, at its end
OneAppended == /\ Len(refundLog') = Len(refundLog) + 1
               /\ SubSeq(refundLog', 1, Len(refundLog)) = refundLog
LastEntry(log) == log[Len(log)]

\* C1: an accepted submission's 202 (count = number of records) is sent
\* before any of its records is validated, logged or forwarded: every step
\* that settles a record of a batch, appends for it or issues a call for it
\* starts in a state where that batch's 202 is already out.
C1_AckPrecedesWork ==
    [][\A b \in Batches :
          (\/ Len(outcomes'[b]) > Len(outcomes[b])
           \/ appendedBy'[b] > appendedBy[b]
           \/ Len(calls'[b]) > Len(calls[b])
           \/ pos'[b] # pos[b])
          => /\ acked[b].status = 202
             /\ acked[b].count = Len(leads[b])
             /\ acked'[b] = acked[b]]_vars

C1_Witness ==
    \E b \in Batches : /\ acked[b].status = 202 /\ acked[b].count = 2
                       /\ appendedBy[b] > 0 /\ Len(calls[b]) > 0

\* a valid record whose key a valid earlier record of the batch has
LaterOccurrence(b, j) ==
    /\ Valid(leads[b][j])
    /\ \E i \in 1..(j - 1) : Valid(leads[b][i]) /\ KeyOf(leads[b][i]) = KeyOf(leads[b][j])
FirstOccurrence(b, i) == Valid(leads[b][i]) /\ ~LaterOccurrence(b, i)

BatchDuplicateReasons == {"Duplicate in file", "Duplicate in current batch"}

\* C2: within a batch, one call per canonical key, made for the first record
\* with that key; every later record with the key appends one
\* batch-duplicate entry and issues no call.
C2_OneCallPerKey ==
    /\ [](\A b \in Batches : \A i \in 1..Len(leads[b]) :
            /\ (FirstOccurrence(b, i) /\ Reached(b, i)) =>
                   {k \in 1..Len(calls[b]) :
                        calls[b][k].data.mobile = KeyOf(leads[b][i])}
                   = {k \in 1..Len(calls[b]) : calls[b][k].idx = i}
                /\ Cardinality({k \in 1..Len(calls[b]) : calls[b][k].idx = i}) = 1
            /\ LaterOccurrence(b, i) => i \notin CallIdx(b))
    /\ [][\A b \in Batches : \A j \in 1..Len(leads[b]) :
            (LaterOccurrence(b, j) /\ pos[b] = j /\ pos'[b] = j + 1) =>
                /\ OneAppended
                /\ EntryReason(LastEntry(refundLog')) \in BatchDuplicateReasons
                /\ calls' = calls]_vars

C2_Witness ==
    \E b \in Batches : /\ pc[b] = "done" /\ Len(leads[b]) = 2
                       /\ leads[b][1] # leads[b][2]
                       /\ LaterOccurrence(b, 2)
                       /\ Len(calls[b]) = 1 /\ calls[b][1].idx = 1
                       /\ appendedBy[b] = 1

\* how many digit characters a raw contact holds
DigitCount(contact) == Len(StripNonDigits(toString(contact)))
AllDigits(chars) == \A n \in 1..Len(chars) : IsDigit(chars[n])
\* a raw record that lacks a name or whose contact has fewer than 10 digits
Deficient(lead) ==
    \/ "student_name" \notin DOMAIN lead
    \/ DigitCount(Get(lead, "student_contact")) < 10

\* C3: a record missing a name, or with fewer than 10 digits in its contact,
\* fails validation and is never forwarded; every call carries a mobile of
\* exactly 10 digits.
C3_DeficientNeverForwarded ==
    \A b \in Batches :
        /\ \A k \in 1..Len(outcomes[b]) :
               Deficient(leads[b][outcomes[b][k].idx])
                   => outcomes[b][k].kind = "ValidationFailure"
        /\ \A k \in 1..Len(calls[b]) :
               /\ ~Deficient(leads[b][calls[b][k].idx])
               /\ Len(calls[b][k].data.mobile) = 10
               /\ AllDigits(calls[b][k].data.mobile)

\* a raw record with a usable name, a contact of at least 10 digits and
\* nothing else
PlainLead(lead) ==
    /\ DOMAIN lead = {"student_name", "student_contact"}
    /\ lead.student_name.t = "string" /\ Len(trim(lead.student_name.v)) >= 2
    /\ lead.student_contact.t \in {"string", "number"}
    /\ DigitCount(lead.student_contact) >= 10

\* C4: a contact (string or number) with at least 10 digit characters is
\* accepted by validation, and the mobile forwarded for it is the last 10 of
\* its digits.
C4_TenDigitContactsAccepted ==
    \A b \in Batches :
        /\ \A k \in 1..Len(outcomes[b]) :
               PlainLead(leads[b][outcomes[b][k].idx])
                   => outcomes[b][k].kind # "ValidationFailure"
        /\ \A k \in 1..Len(calls[b]) :
               LET lead == leads[b][calls[b][k].idx] IN
               PlainLead(lead) =>
                   calls[b][k].data.mobile
                       = SliceLast(StripNonDigits(toString(lead.student_contact)), 10)

\* the revisions one at a time
SpecServerJs == Init /\ variant = "server.js" /\ [][Next]_vars
SpecPart000 == Init /\ variant = "part_000" /\ [][Next]_vars

\* A ledger at its cap: the entries LedgerCap rejected leads have left, the
\* zones alternating.
FullLedger ==
    [i \in 1..LedgerCap |->
        LET zone == IF i % 2 = 0 THEN Central ELSE South
            reason == ValidationReason(LeadNoName) IN
        IF variant = "part_000" THEN DataEntry(LeadNoName, zone, reason)
        ELSE SpreadEntry(LeadNoName, zone, reason)]

\* LedgerCap entries are in the ledger and one request of the budget is spent
InitAtCap == InitWith(FullLedger, 1)
SpecAtCap == InitAtCap /\ [][Next]_vars
SpecAtCapPart000 == InitAtCap /\ variant = "part_000" /\ [][Next]_vars

\* a step in which a batch logs a failure
Appends == \E b \in Batches : appendedBy'[b] = appendedBy[b] + 1

\* C5: the ledger never holds more than LedgerCap entries; an append at the
\* cap evicts the oldest entry only and puts the new one last.
C5_LedgerWithinCap ==
    /\ [](Len(refundLog) <= LedgerCap)
    /\ [][(Appends /\ Len(refundLog) = LedgerCap) =>
              /\ Len(refundLog') = LedgerCap
              /\ SubSeq(refundLog', 1, LedgerCap - 1) = Tail(refundLog)]_vars



\* the step serves a GET /api/leads/refunds
ReadServed == nReq' = nReq + 1 /\ lastReq'.op = "GET /api/leads/refunds"
ReadEmpty == lastResp'.total = 0 /\ lastResp'.entries = <<>>

\* C6 as stated: a read after a clear returns total 0 and no entries in any
\* state, also while batches accepted before the clear are in flight.
C6_ReadAfterClearAnyState ==
    [][(ReadServed /\ sinceClear \in {"clean", "appended"}) => ReadEmpty]_vars

\* C6: a read after a clear returns total 0 and no entries when no batch has
\* logged a failure between the two, also while batches accepted before the
\* clear are in flight.
C6_ReadAfterClearIsEmpty ==
    [][(ReadServed /\ sinceClear = "clean") => ReadEmpty]_vars

\* a read answered empty after a clear that removed a batch's entry, that
\* batch still waiting for the CRM
C6_Witness ==
    /\ lastReq.op = "GET /api/leads/refunds" /\ sinceClear = "clean"
    /\ lastResp.total = 0
    /\ \E b \in Batches : pc[b] = "post" /\ appendedBy[b] > 0

\* the step serves a POST /api/leads/:zone
SubmissionServed == nReq' = nReq + 1 /\ lastReq'.op = "POST /api/leads/:zone"
\* no batch starts or moves, no call is issued, the ledger stays
NothingHappens == refundLog' = refundLog /\ UNCHANGED batchVars

\* C7: a submission whose x-api-key is missing or is not the secret is
\* answered 401 whatever its zone; no batch starts, the ledger is unchanged
\* and no call is issued.
C7_BadKeyUnauthorized ==
    [][(SubmissionServed /\ lastReq'.key # COLLEGEDUNIA_KEY) =>
           lastResp'.status = 401 /\ NothingHappens]_vars

\* a keyless submission to an unknown zone answered 401 while an earlier
\* batch is in flight and the ledger holds an entry
C7_Witness ==
    /\ lastReq.op = "POST /api/leads/:zone" /\ lastReq.key = Undefined
    /\ ~ZoneFound(lastReq.zone)
    /\ lastResp.status = 401
    /\ Len(refundLog) > 0
    /\ \E b \in Batches : pc[b] = "post"

\* C8: a submission with the valid key to a zone that is not in the zone map
\* is answered 404: no 202, no batch, no ledger change, no call.
C8_UnknownZoneNotFound ==
    [][(SubmissionServed /\ lastReq'.key = COLLEGEDUNIA_KEY
            /\ lastReq'.zone \notin DOMAIN ZONE_MAP) =>
           lastResp'.status = 404 /\ NothingHappens]_vars

\* the step handles the settlement of a batch's axios.post
Settles == settled'.batch # 0
\* the destination accepted the call: it answered with a 2xx status
Accepts(r) == r.hasResponse /\ r.status \in 200..299
LastKind(b) == outcomes'[b][Len(outcomes'[b])].kind
OutcomeAdded(b) == Len(outcomes'[b]) = Len(outcomes[b]) + 1
PairwiseDistinct(b) ==
    \A i, j \in 1..Len(leads[b]) : i # j => KeyOf(leads[b][i]) # KeyOf(leads[b][j])

\* C9: a record whose call the destination accepts is Delivered and its
\* processing leaves the ledger unchanged; a finished batch of valid, pairwise
\* distinct, delivered records has put nothing in the ledger.
C9_DeliveredLeavesLedger ==
    /\ [](\A b \in Batches :
             (/\ pc[b] = "done"
              /\ \A i \in 1..Len(leads[b]) : Valid(leads[b][i])
              /\ PairwiseDistinct(b)
              /\ \A k \in 1..Len(outcomes[b]) : outcomes[b][k].kind = "Delivered")
                 => appendedBy[b] = 0)
    /\ [][\A b \in Batches :
             /\ (Settles /\ settled'.batch = b /\ Accepts(settled'.answer))
                    => OutcomeAdded(b) /\ LastKind(b) = "Delivered"
             /\ (OutcomeAdded(b) /\ LastKind(b) = "Delivered")
                    => refundLog' = refundLog /\ appendedBy' = appendedBy]_vars

\* a finished batch of two distinct valid records, both delivered
C9_Witness ==
    \E b \in Batches :
        /\ pc[b] = "done" /\ Len(leads[b]) = 2 /\ PairwiseDistinct(b)
        /\ \A i \in 1..2 : Valid(leads[b][i])
        /\ Len(outcomes[b]) = 2
        /\ \A k \in 1..2 : outcomes[b][k].kind = "Delivered"
        /\ appendedBy[b] = 0

\* the destination's answer says duplicate: status 409, or the word in the
\* body in any letter case
SaysDuplicate(r) ==
    r.hasResponse /\ (r.status = 409 \/ includes(toLowerCase(r.data), Duplicate))
LoggedAs(b, reason) ==
    /\ appendedBy'[b] = appendedBy[b] + 1
    /\ Len(refundLog') > 0
    /\ EntryReason(LastEntry(refundLog')) = reason

\* C10: an answer with status 409, or whose body (of any status) contains
\* "duplicate" in any letter case, is a RemoteDuplicate and logs one entry
\* 'Duplicate in CRM'; any other non-2xx answer, connection error or timeout
\* is a transport failure and never 'Duplicate in CRM'.
C10_DuplicateClassification ==
    [][\A b \in Batches : (Settles /\ settled'.batch = b) =>
           LET r == settled'.answer IN
           IF SaysDuplicate(r)
           THEN /\ OutcomeAdded(b) /\ LastKind(b) = "RemoteDuplicate"
                /\ LoggedAs(b, "Duplicate in CRM")
           ELSE Accepts(r) \/ (/\ OutcomeAdded(b) /\ LastKind(b) = "TransportFailure"
                               /\ appendedBy'[b] = appendedBy[b] + 1
                               /\ EntryReason(LastEntry(refundLog')) # "Duplicate in CRM")]_vars


\* any step of batch b's background code
BatchStep(b) ==
    \/ Dispatch(b) \/ StartBatch(b) \/ LoopEnd(b)
    \/ RecordInvalid(b) \/ RecordDuplicate(b) \/ RecordForward(b)
    \/ \E r \in AllAnswers : PostResolves(b, r) \/ PostRejects(b, r)
    \/ TimerFires(b)

\* The event loop runs every callback that is ready, a timer fires, and the
\* timeout option makes every axios.post settle: a batch that can take a step
\* takes one.
\* All of the request budget but one is spent (on GET /status, say) when the
\* behaviours checked for progress begin.
InitServed == InitWith(<<>>, MaxReq - 1)
FairSpec == InitServed /\ [][Next]_vars /\ \A b \in Batches : WF_vars(BatchStep(b))

\* record i of batch b has been validated and then logged or forwarded
Handled(b, i) ==
    \/ i \in CallIdx(b)
    \/ \E k \in 1..Len(outcomes[b]) : outcomes[b][k].idx = i

\* C11: every record of an accepted batch is eventually validated and then
\* logged or forwarded, however the records before it ended.
C11_FailureIsolation ==
    \A b \in Batches :
        (acked[b].status = 202) ~> (\A i \in 1..Len(leads[b]) : Handled(b, i))

\* the second record of a batch handled after the first was logged as a
\* failure of its forwarding call
C11_Witness ==
    \E b \in Batches :
        /\ Len(outcomes[b]) > 0
        /\ outcomes[b][1].idx = 1
        /\ outcomes[b][1].kind \in {"RemoteDuplicate", "TransportFailure"}
        /\ Handled(b, 2)


\* how many calls batch b has issued for its record i
CallsFor(b, i) == Cardinality({k \in 1..Len(calls[b]) : calls[b][k].idx = i})

\* C12: a record the loop has reached has one call when it is valid and no
\* in-batch duplicate, none otherwise; a call that fails is not retried; a
\* batch never has more calls than records.
C12_CallsPerRecord ==
    /\ [](\A b \in Batches :
            /\ Len(calls[b]) <= Len(leads[b])
            /\ \A i \in 1..Len(leads[b]) :
                   CallsFor(b, i) = IF FirstOccurrence(b, i) /\ Reached(b, i) THEN 1 ELSE 0)
    /\ [][\A b \in Batches :
            (Settles /\ settled'.batch = b /\ ~Accepts(settled'.answer)) =>
                calls' = calls /\ pos'[b] = pos[b] + 1]_vars

\* a finished batch of an invalid record and a record whose only call failed
C12_Witness ==
    \E b \in Batches :
        /\ pc[b] = "done" /\ Len(leads[b]) = 2
        /\ ~Valid(leads[b][1]) /\ CallsFor(b, 1) = 0
        /\ CallsFor(b, 2) = 1
        /\ outcomes[b][2].kind = "TransportFailure"


\* the keys of the valid records batch b's loop has reached
OwnKeys(b) ==
    {KeyOf(leads[b][i]) : i \in {j \in 1..Len(leads[b]) : Valid(leads[b][j]) /\ Reached(b, j)}}

\* C13: a batch's seen-set starts empty, holds the keys of that batch's own
\* records only and is written by that batch only; a key another batch has
\* forwarded is still forwarded, and logged as a batch duplicate only after
\* an earlier record of the same batch.
C13_SeenSetPerBatch ==
    /\ [](\A b \in Batches :
            /\ seenInBatch[b] = OwnKeys(b)
            /\ \A i \in 1..Len(leads[b]) :
                   (FirstOccurrence(b, i) /\ Reached(b, i)) => i \in CallIdx(b)
            /\ \A k \in 1..Len(outcomes[b]) :
                   outcomes[b][k].kind = "BatchDuplicate"
                       => LaterOccurrence(b, outcomes[b][k].idx))
    /\ [][\A b \in Batches : seenInBatch'[b] # seenInBatch[b] => running = b]_vars

\* two batches in flight at once, each waiting for its own call for the same key
C13_Witness ==
    \E b, c \in Batches :
        /\ b # c
        /\ pc[b] = "post" /\ pc[c] = "post"
        /\ calls[b][Len(calls[b])].data.mobile = calls[c][Len(calls[c])].data.mobile
        /\ appendedBy[b] = 0 /\ appendedBy[c] = 0


\* the step accepts a submission: it answers 202
AcceptedStep == SubmissionServed /\ lastResp'.status = 202

\* C14: a single-object body is acknowledged (count 1) and handed to the
\* background batch exactly as the one-element array holding that object; an
\* array of n records is acknowledged with count n.
C14_ObjectAsOneElementArray ==
    [][AcceptedStep =>
          LET b == nBatches'
              body == lastReq'.body
              asArray == IF body.isArray THEN body.items ELSE <<body.object>> IN
          /\ lastResp'.count = (IF body.isArray THEN Len(body.items) ELSE 1)
          /\ lastResp' = Accepted(lastReq'.zone, asArray)
          /\ acked'[b] = lastResp'
          /\ leads'[b] = asArray
          /\ zoneKey'[b] = lastReq'.zone
          /\ pos'[b] = 1 /\ seenInBatch'[b] = {} /\ calls'[b] = <<>>
          /\ refundLog' = refundLog]_vars

\* a single-object body just acknowledged with count 1, its batch holding
\* that object as its only lead
C14_Witness ==
    /\ lastReq.op = "POST /api/leads/:zone" /\ lastResp.status = 202
    /\ ~lastReq.body.isArray
    /\ lastResp.count = 1
    /\ leads[nBatches] = <<lastReq.body.object>>
    /\ pc[nBatches] = "accepted"


\* the step serves a DELETE /api/leads/refunds
ClearServed == nReq' = nReq + 1 /\ lastReq'.op = "DELETE /api/leads/refunds"
Confirmation == [status |-> 200, body |-> "Refund report cleared."]

\* C15: every clear leaves the ledger empty and answers with the
\* confirmation; a clear of an empty ledger, and a clear that follows a clear,
\* change nothing.
C15_ClearIdempotent ==
    [][ClearServed =>
          /\ refundLog' = <<>>
          /\ lastResp' = Confirmation
          /\ UNCHANGED batchVars
          /\ refundLog = <<>> => refundLog' = refundLog
          /\ lastReq.op = "DELETE /api/leads/refunds"
                 => UNCHANGED <<variant, refundLog, running, batchVars, sinceClear>>]_vars

\* a clear served when no submission was ever accepted, after an earlier
\* request: the ledger it clears is empty
C15_Witness ==
    /\ lastReq.op = "DELETE /api/leads/refunds"
    /\ lastResp = Confirmation
    /\ nReq >= 2 /\ nBatches = 0
    /\ refundLog = <<>>


\* the step serves GET /status or GET /api/leads/refunds
LookServed ==
    nReq' = nReq + 1 /\ lastReq'.op \in {"GET /status", "GET /api/leads/refunds"}

\* C16: the status and the ledger read endpoints leave the ledger, every
\* batch's position and every seen-set as they were; the read returns the
\* ledger's entries and their number as total.
C16_ReadEndpointsReadOnly ==
    [][LookServed =>
          /\ refundLog' = refundLog
          /\ pos' = pos /\ seenInBatch' = seenInBatch
          /\ UNCHANGED batchVars
          /\ lastResp'.status = 200
          /\ ReadServed => /\ lastResp'.entries = refundLog
                           /\ lastResp'.total = Len(lastResp'.entries)]_vars

\* a read that returned the one entry a batch has logged while that batch
\* waits for its next call
C16_Witness ==
    /\ lastReq.op = "GET /api/leads/refunds"
    /\ lastResp.total = 1 /\ Len(lastResp.entries) = 1
    /\ \E b \in Batches : pc[b] = "post" /\ appendedBy[b] = 1


FailedKinds == {"RemoteDuplicate", "TransportFailure"}
\* an earlier record of batch b with record j's key was forwarded and its
\* call failed
FailedEarlier(b, j) ==
    \E n \in 1..Len(outcomes[b]) :
        /\ outcomes[b][n].idx < j
        /\ outcomes[b][n].kind \in FailedKinds
        /\ KeyOf(leads[b][outcomes[b][n].idx]) = KeyOf(leads[b][j])

\* C17: the key of every call is in the batch's seen-set from the moment the
\* call is issued; a later record with the key of a call that failed is
\* logged as a batch duplicate and not sent.
C17_SeenBeforeCall ==
    /\ [](\A b \in Batches : \A k \in 1..Len(calls[b]) :
            calls[b][k].data.mobile \in seenInBatch[b])
    /\ [][\A b \in Batches : \A j \in 1..Len(leads[b]) :
            (Valid(leads[b][j]) /\ FailedEarlier(b, j) /\ pos[b] = j /\ pos'[b] = j + 1) =>
                /\ calls' = calls
                /\ OutcomeAdded(b) /\ LastKind(b) = "BatchDuplicate"
                /\ LoggedAs(b, DuplicateInBatchReason)]_vars

\* a finished batch of two records with one key: the call for the first
\* failed, the second was logged as a batch duplicate
C17_Witness ==
    \E b \in Batches :
        /\ pc[b] = "done" /\ Len(leads[b]) = 2 /\ Len(calls[b]) = 1
        /\ outcomes[b][1].kind \in FailedKinds
        /\ outcomes[b][2].kind = "BatchDuplicate"
        /\ appendedBy[b] = 2


\* the calls of batch b that have settled, and those still in flight
SettledCalls(b) ==
    Cardinality({n \in 1..Len(outcomes[b]) :
                     outcomes[b][n].kind \in {"Delivered"} \cup FailedKinds})
InFlight(b) == Len(calls[b]) - SettledCalls(b)
\* the step issues a call of batch b
Issues(b) == Len(calls'[b]) > Len(calls[b])

\* C18: a batch has at most one call in flight; a call is issued only when
\* every earlier call of the batch has settled; calls are issued, and records
\* end, in submission order.
C18_SequentialPerBatch ==
    /\ [](\A b \in Batches :
            /\ InFlight(b) \in {0, 1}
            /\ \A k \in 1..(Len(calls[b]) - 1) : calls[b][k].idx < calls[b][k + 1].idx
            /\ \A n \in 1..(Len(outcomes[b]) - 1) :
                   outcomes[b][n].idx < outcomes[b][n + 1].idx)
    /\ [][\A b \in Batches :
            Issues(b) => /\ InFlight(b) = 0
                         /\ Len(calls'[b]) = Len(calls[b]) + 1
                         /\ calls'[b][Len(calls'[b])].idx = pos[b]]_vars

\* the second call of a batch in flight, the first one settled
C18_Witness ==
    \E b \in Batches :
        /\ Len(calls[b]) = 2 /\ pc[b] = "post"
        /\ SettledCalls(b) = 1
        /\ calls[b][1].idx = 1 /\ calls[b][2].idx = 2


\* C19: between two consecutive calls of a batch the throttle sleep runs,
\* whether the earlier call succeeded or failed: a batch that has issued n
\* calls has slept at least n - 1 times.
C19_ThrottleBetweenCalls ==
    \A b \in Batches : Len(calls[b]) <= sleeps[b] + 1


\* the raw record a ledger entry holds: part_000 keeps it under data,
\* server.js spreads its fields into the entry
Archived(e) == IF variant = "part_000" THEN e.data ELSE e

\* C20: every ledger entry archives the raw record as submitted: each field
\* of the record, a field named zone or reason included, reads back from the
\* entry with its submitted value.
C20_RawRecordArchived ==
    [][\A b \in Batches :
          appendedBy'[b] = appendedBy[b] + 1 =>
              LET lead == CurrentLead(b)
                  raw == Archived(LastEntry(refundLog')) IN
              \A k \in DOMAIN lead : k \in DOMAIN raw /\ raw[k] = lead[k]]_vars


\* Submissions of ConcurrentPool leads only, with the other handlers and the
\* batches' steps as in Next.
NextBusy ==
    \/ GetStatus
    \/ GetRefunds
    \/ DeleteRefunds
    \/ \E key \in IncomingKeys, zone \in ZoneParams :
           \E body \in {x \in ArrayBodiesFor(key, zone) : InPool(RawLeads(x), ConcurrentPool)} :
               PostLeads(key, zone, body)
    \/ \E key \in IncomingKeys, zone \in ZoneParams :
           \E body \in {x \in ObjectBodiesFor(key, zone) : InPool(RawLeads(x), ConcurrentPool)} :
               PostLeads(key, zone, body)
    \/ \E b \in Batches : BatchStep(b)

\* Two requests of the budget are left, so that a clear, a read or a second
\* submission arrives while a batch runs; callbacks run when ready.
InitBusy == InitWith(<<>>, MaxReq - 2)
FairBusySpec == InitBusy /\ [][NextBusy]_vars /\ \A b \in Batches : WF_vars(BatchStep(b))

\* batch b has returned, every record of it ended
Completed(b) == pc[b] = "done" /\ Len(outcomes[b]) = Len(leads[b])
\* what batch b's code holds
BatchState(b) == <<leads[b], zoneKey[b], pos[b], seenInBatch[b], pc[b], calls[b], outcomes[b]>>

\* C21: every accepted batch eventually returns with all its records
\* processed; a request served meanwhile (clear, read, status, another
\* submission) changes nothing of a batch already accepted, another batch's
\* step changes nothing of it either, and a batch that has returned stays so.
C21_RunsToCompletion ==
    /\ \A b \in Batches : (acked[b].status = 202) ~> Completed(b)
    /\ [][\A b \in Batches :
            /\ (nReq' # nReq /\ pc[b] # "none") => BatchState(b)' = BatchState(b)
            /\ \A c \in Batches \ {b} : BatchStep(c) => BatchState(b)' = BatchState(b)
            /\ Completed(b) => Completed(b)']_vars

\* the only batch has returned after two appends of which one is left: a clear
\* was served between them, while the batch ran
C21_Witness ==
    /\ nBatches = 1
    /\ \E b \in Batches : Completed(b) /\ appendedBy[b] = 2 /\ Len(refundLog) = 1

\* the endpoint configured for a zone key; a key that is no own key of
\* ZONE_MAP has none
ConfiguredUrl(zone) == IF zone \in DOMAIN ZONE_MAP THEN ZONE_MAP[zone].url ELSE Undefined

\* C22: every call of a batch carries the URL that ZONE_MAP configures for the
\* zone key of the batch's submission (none for a key ZONE_MAP does not own)
\* and names that zone as its source, and every entry a batch appends carries
\* the zone key of the batch's submission, whichever batches are in flight.
C22_ZoneIsolation ==
    /\ [](\A b \in Batches : \A k \in 1..Len(calls[b]) :
            /\ calls[b][k].url = ConfiguredUrl(zoneKey[b])
            /\ calls[b][k].data.source = Str(toUpperCase(zoneKey[b])))
    /\ [][\A b \in Batches :
            appendedBy'[b] = appendedBy[b] + 1
                => EntryZone(LastEntry(refundLog')) = zoneKey[b]]_vars

\* the first batch, for the central zone, has its call out to the central
\* endpoint while the second batch, for the south zone, has appended its entry
C22_Witness ==
    /\ zoneKey[1] = Central /\ pc[1] = "post" /\ Len(calls[1]) = 1
    /\ PendingUrl(1) = Lit(CentralUrl)
    /\ zoneKey[2] = South /\ appendedBy[2] = 1
    /\ Len(refundLog) = 1 /\ EntryZone(refundLog[1]) = South


\* entry e holds the fields of the raw record lead (server.js sets the
\* entry's own zone and reason after the spread)
Keeps(e, lead) ==
    IF variant = "part_000" THEN e.data = lead
    ELSE \A k \in DOMAIN lead \ {"zone", "reason"} : k \in DOMAIN e /\ e[k] = lead[k]

OutcomeKinds == {"ValidationFailure", "BatchDuplicate", "Delivered", "RemoteDuplicate",
                 "TransportFailure"}
\* the records of batch b that ended as delivered, and the others that ended
DeliveredOf(b) == {n \in 1..Len(outcomes[b]) : outcomes[b][n].kind = "Delivered"}
LoggedOf(b) == {n \in 1..Len(outcomes[b]) : outcomes[b][n].kind # "Delivered"}
RECURSIVE DeliveredUpTo(_)
DeliveredUpTo(n) == IF n = 0 THEN 0 ELSE Cardinality(DeliveredOf(n)) + DeliveredUpTo(n - 1)
TotalDelivered == DeliveredUpTo(MaxBatches)
TotalAppended == SumOf(appendedBy, MaxBatches)
\* every accepted batch has returned
AllCompleted == nBatches > 0 /\ \A b \in 1..nBatches : pc[b] = "done"
\* every request served so far was an accepted submission: no clear
OnlySubmissions == nReq = nBatches

\* C24: the n-th record of a batch to end is its n-th record and ends in one
\* of the five outcomes; a batch has appended one entry for each of its
\* records that ended otherwise than delivered; a batch that has returned has
\* an outcome for each record; a step that is no clear changes the ledger's
\* length by the number of appends it makes, one at most; and when all
\* batches have returned and nothing was cleared, the ledger holds the number
\* of records submitted less the number delivered.
C24_LedgerGrowth ==
    /\ [](\A b \in Batches :
            /\ \A n \in 1..Len(outcomes[b]) :
                   outcomes[b][n].idx = n /\ outcomes[b][n].kind \in OutcomeKinds
            /\ Len(outcomes[b]) <= Len(leads[b])
            /\ appendedBy[b] = Cardinality(LoggedOf(b))
            /\ pc[b] = "done" => Len(outcomes[b]) = Len(leads[b]))
    /\ []((AllCompleted /\ OnlySubmissions)
            => Len(refundLog) = TotalRecords - TotalDelivered)
    /\ [][~ClearServed =>
            /\ Len(refundLog') - Len(refundLog) = TotalAppended' - TotalAppended
            /\ TotalAppended' - TotalAppended \in {0, 1}]_vars

\* two batches were accepted and have returned, nothing else was served: of
\* the two records one was delivered and the other one is in the ledger
C24_Witness ==
    /\ nBatches = 2 /\ AllCompleted /\ OnlySubmissions
    /\ TotalRecords = 2 /\ TotalDelivered = 1 /\ Len(refundLog) = 1


\* the last ten digits of a raw record's contact, valid or not
RawKey(lead) == IF "student_contact" \in DOMAIN lead THEN Mobile(lead.student_contact)
                ELSE <<>>
\* every earlier record of batch b with record j's contact digits fails
\* validation
OnlyInvalidBefore(b, j) ==
    \A i \in 1..(j - 1) :
        RawKey(leads[b][i]) = KeyOf(leads[b][j]) => ~Valid(leads[b][i])
EndedAs(b, j, kind) ==
    \E k \in 1..Len(outcomes[b]) : outcomes[b][k].idx = j /\ outcomes[b][k].kind = kind

\* C25: the step that logs a validation failure leaves every seen-set as it
\* was; a seen-set changes only in the step that forwards a valid record, by
\* that record's key; and a valid record preceded in its batch only by
\* invalid records with its contact digits is forwarded and not logged as a
\* batch duplicate.
C25_InvalidNeverMarks ==
    /\ [][\A b \in Batches :
            /\ (OutcomeAdded(b) /\ LastKind(b) = "ValidationFailure")
                   => ~Valid(CurrentLead(b)) /\ seenInBatch' = seenInBatch
            /\ seenInBatch'[b] # seenInBatch[b]
                   => /\ Valid(CurrentLead(b)) /\ Issues(b)
                      /\ seenInBatch'[b] = seenInBatch[b] \cup {KeyOf(CurrentLead(b))}]_vars
    /\ [](\A b \in Batches : \A j \in 1..Len(leads[b]) :
            (Valid(leads[b][j]) /\ Reached(b, j) /\ OnlyInvalidBefore(b, j))
                => j \in CallIdx(b) /\ ~EndedAs(b, j, "BatchDuplicate"))

\* a record that failed validation is followed by a valid record with the
\* same contact digits, which has been forwarded
C25_Witness ==
    \E b \in Batches :
        /\ Len(leads[b]) = 2
        /\ ~Valid(leads[b][1]) /\ EndedAs(b, 1, "ValidationFailure")
        /\ Valid(leads[b][2]) /\ RawKey(leads[b][1]) = KeyOf(leads[b][2])
        /\ 2 \in CallIdx(b) /\ seenInBatch[b] = {KeyOf(leads[b][2])}

====
